---- MODULE Spec2Model ----
(***************************************************************************)
(* Model of the servo hardware-abstraction layer of the duck robot:        *)
(*   - unit conversion (rad_to_servo_pos / servo_pos_to_rad) of the two    *)
(*     WaveshareHWI implementations,                                       *)
(*   - the WaveshareHWI joint-space API,                                   *)
(*   - the diagnostic run of check_motors.py,                              *)
(*   - the threaded IMU reader of imu2.py,                                 *)
(*   - the calibration pipeline: calibrate_waveshare.py (record) and       *)
(*     compute_init_pos.py (merge into duck_config.json).                  *)
(*                                                                         *)
(* Two WaveshareHWI implementations exist in the repository:               *)
(*   "RT" = Open_Duck_Mini_Runtime/mini_bdx_runtime/waveshare_position_hwi *)
(*   "DF" = duck_files/mini_bdx_runtime/mini_bdx_runtime/waveshare_...     *)
(* check_motors.py can also select a rustypot-style interface ("RP"),      *)
(* which is known only through the calls check_motors.py makes on it.      *)
(*                                                                         *)
(* Angles are exact rationals in units of pi: the angle k*pi/AngleDen is   *)
(* the pair <<k, AngleDen>>.  Servo counts returned as floats by the code  *)
(* are rationals <<n, d>> too; Python's int() is truncation toward zero.   *)
(***************************************************************************)
EXTENDS Integers, Sequences, FiniteSets, TLC

VARIABLES
    \* --- unit conversion harness
    cv_pc, cv_impl, cv_cpp, cv_k, cv_pos, cv_rad,
    \* --- IMU reader (imu2.py)
    imu_queue, last_imu_data, wpc, wdata, produced, discarded,
    gpc, ret, slotAtCall, prevRet,
    \* --- WaveshareHWI API harness
    hpc, hwi_impl, hwi_cfg, hwi_ignore, hwi_outcome, hwi_result,
    hwi_mapping, hwi_spa, hwi_port, hwi_closeCalls, hwi_closePorts, hwi_tq,
    \* --- calibration pipeline (calibrate_waveshare.py, compute_init_pos.py)
    cpc, cal_found, cal_i, cal_results, cal_log, cal_file,
    cfg_file, bak_file, mpc, m_step, m_before, m_data, m_exit, merges, cfg_hist,
    \* --- diagnostic run (check_motors.py)
    pc, kind, idx, unresponsive, responsive, readFailed, torqueOff,
    torqueOffSkipped, txAfterUnresp, moveLog, phaseAtShutdown, intr,
    gateAnswer, moveSteps,
    \* --- test suite (test_waveshare_setup.py: test_single_movement)
    tpc, t_suite, t_position, t_servo, t_attempts, t_fallbacks, t_pos,
    t_comm, t_via, t_ret, t_summary

cvVars   == <<cv_pc, cv_impl, cv_cpp, cv_k, cv_pos, cv_rad>>
imuVars  == <<imu_queue, last_imu_data, wpc, wdata, produced, discarded,
              gpc, ret, slotAtCall, prevRet>>
hwiVars  == <<hpc, hwi_impl, hwi_cfg, hwi_ignore, hwi_outcome, hwi_result,
              hwi_mapping, hwi_spa, hwi_port, hwi_closeCalls, hwi_closePorts,
              hwi_tq>>
diagVars == <<pc, kind, idx, unresponsive, responsive, readFailed, torqueOff,
              torqueOffSkipped, txAfterUnresp, moveLog, phaseAtShutdown, intr,
              gateAnswer, moveSteps>>
rec1Vars == <<cpc, cal_found, cal_i, cal_results, cal_log, cal_file>>
mergeVars == <<cfg_file, bak_file, mpc, m_step, m_before, m_data, m_exit,
               merges, cfg_hist>>
calVars  == <<rec1Vars, mergeVars>>
tsmVars  == <<tpc, t_suite, t_position, t_servo, t_attempts, t_fallbacks,
              t_pos, t_comm, t_via, t_ret, t_summary>>
vars     == <<cvVars, imuVars, hwiVars, calVars, diagVars, tsmVars>>
\* what each part of the model leaves alone
notCv    == <<imuVars, hwiVars, calVars, diagVars, tsmVars>>
notImu   == <<cvVars, hwiVars, calVars, diagVars, tsmVars>>
notHwi   == <<cvVars, imuVars, calVars, diagVars, tsmVars>>
notDiag  == <<cvVars, imuVars, hwiVars, calVars, tsmVars>>
notCal   == <<cvVars, imuVars, hwiVars, diagVars, tsmVars>>
notTsm   == <<cvVars, imuVars, hwiVars, calVars, diagVars>>

----------------------------------------------------------------------------
\* Bounds of the model

\* angles are the grid k * pi / AngleDen
AngleDen == 12
\* |k| <= MaxAngleK, i.e. angles up to MaxAngleK/AngleDen * pi
MaxAngleK == 30
\* number of joints in the joint table
NJoints == 3
\* number of readings the IMU worker produces
MaxReadings == 4
\* number of entries of the mapping handed to set_position_all
MaxEntries == 2
\* number of runs of the calibration merge
MaxMerges == 2
\* number of close() calls on one hardware-interface session
MaxCloses == 2

----------------------------------------------------------------------------
\* Rationals <<n, d>> with d > 0

Rat(n, d)    == <<n, d>>
RatLE(a, b)  == a[1] * b[2] <= b[1] * a[2]
RatEq(a, b)  == a[1] * b[2] = b[1] * a[2]
RatSub(a, b) == <<a[1] * b[2] - b[1] * a[2], a[2] * b[2]>>
RatAdd(a, b) == <<a[1] * b[2] + b[1] * a[2], a[2] * b[2]>>
RatAbs(a)    == IF a[1] < 0 THEN <<-a[1], a[2]>> ELSE a
\* Python int(x): truncation toward zero
PyInt(a)     == IF a[1] >= 0 THEN a[1] \div a[2] ELSE -((-a[1]) \div a[2])

Max2(a, b) == IF a >= b THEN a ELSE b
Min2(a, b) == IF a <= b THEN a ELSE b

----------------------------------------------------------------------------
\* Unit conversion

\* default of counts_per_pi in the RT implementation
DefaultCountsPerPi == 1024
\* SERVO_POS_RANGE of the DF implementation
SERVO_POS_RANGE == 2048
\* upper clip bound written literally in the DF implementation
DF_CLIP_MAX == 2047

Impls == {"RT", "DF"}

\* the values counts_per_pi takes: RT reads it from the configuration
\* (default 1024, 2048 for the ST/SMS family); DF has the class constant.
Profiles(impl) == IF impl = "RT" THEN {DefaultCountsPerPi, 2 * DefaultCountsPerPi}
                  ELSE {SERVO_POS_RANGE}

clamp_NoLower(v, a, b) == Min2(b, v)
clamp_Wrap(v, a, b) == a + ((v - a) % (b - a + 1))
clamp(v, a, b) == Max2(a, Min2(b, v))

\* np.clip on a rational with denominator kept
np_clip(x, lo, hi) ==
    IF x[1] < lo * x[2] THEN <<lo * x[2], x[2]>>
    ELSE IF x[1] > hi * x[2] THEN <<hi * x[2], x[2]>>
    ELSE x

\* RT: center = int(cpp/2); pos = int(rad/pi * (cpp/2) + center); clamp
rad_to_servo_pos_RT(cpp, theta) ==
    LET center == PyInt(Rat(cpp, 2))
        pos    == PyInt(Rat(theta[1] * cpp + 2 * theta[2] * center, 2 * theta[2]))
    IN  Rat(clamp(pos, 0, cpp - 1), 1)

\* DF: (rad/pi) * (RANGE/2) + RANGE/2, np.clip(., 0, 2047); a float
rad_to_servo_pos_DF(cpp, theta) ==
    np_clip(Rat(theta[1] * SERVO_POS_RANGE + theta[2] * SERVO_POS_RANGE, 2 * theta[2]),
            0, DF_CLIP_MAX)

rad_to_servo_pos(impl, cpp, theta) ==
    IF impl = "RT" THEN rad_to_servo_pos_RT(cpp, theta)
    ELSE rad_to_servo_pos_DF(cpp, theta)

servo_pos_to_rad_RT_PerPi(cpp, count) ==
    LET center == PyInt(Rat(cpp, 2))
    IN  Rat(count[1] - center * count[2], count[2] * cpp)
\* RT: (count - center) * pi / (cpp/2), in units of pi
servo_pos_to_rad_RT(cpp, count) ==
    LET center == PyInt(Rat(cpp, 2))
    IN  Rat(2 * (count[1] - center * count[2]), count[2] * cpp)

\* DF: ((servo_pos - RANGE/2) / (RANGE/2)) * pi, in units of pi
servo_pos_to_rad_DF(cpp, count) ==
    Rat(2 * count[1] - SERVO_POS_RANGE * count[2], count[2] * SERVO_POS_RANGE)

servo_pos_to_rad(impl, cpp, count) ==
    IF impl = "RT" THEN servo_pos_to_rad_RT(cpp, count)
    ELSE servo_pos_to_rad_DF(cpp, count)

\* one count's worth of angle, pi / (resolution/2), in units of pi
OneCount(cpp) == Rat(2, cpp)

NoRat  == <<0, 1>>

CvInit ==
    /\ cv_pc = "start"
    /\ cv_impl \in Impls
    /\ cv_cpp \in Profiles(cv_impl)
    /\ cv_k \in (0 - MaxAngleK) .. MaxAngleK
    /\ cv_pos = NoRat
    /\ cv_rad = NoRat

CvIdle ==
    /\ cv_pc = "off" /\ cv_impl = "RT" /\ cv_cpp = DefaultCountsPerPi
    /\ cv_k = 0 /\ cv_pos = NoRat /\ cv_rad = NoRat

ApplyRadToServoPos ==
    /\ cv_pc = "start"
    /\ cv_pos' = rad_to_servo_pos(cv_impl, cv_cpp, Rat(cv_k, AngleDen))
    /\ cv_pc' = "converted"
    /\ UNCHANGED <<cv_impl, cv_cpp, cv_k, cv_rad>>
    /\ UNCHANGED notCv

ApplyServoPosToRad ==
    /\ cv_pc = "converted"
    /\ cv_rad' = servo_pos_to_rad(cv_impl, cv_cpp, cv_pos)
    /\ cv_pc' = "back"
    /\ UNCHANGED <<cv_impl, cv_cpp, cv_k, cv_pos>>
    /\ UNCHANGED notCv

----------------------------------------------------------------------------
\* IMU reader (imu2.py): one worker thread, get_data callers

\* Queue(maxsize=1)
QMaxSize == 1
\* the all-zero default of last_imu_data; readings are numbered 1, 2, ...
ZeroReading == 0

QueueFull_Unbounded(q) == FALSE
\* Queue.full()
QueueFull(q) == Len(q) >= QMaxSize

get_data_block_True == TRUE
\* the block argument of imu_queue.get(False) in get_data
get_data_block == FALSE

\* Queue.get(block): a blocking get waits while the queue is empty; a
\* non-blocking get returns at once (an item, or the Empty exception)
QueueGetReady(q, block) == q # <<>> \/ ~block
\* Queue.put(item) (blocking): waits while the queue is full
QueuePutReady(q) == ~QueueFull(q)

ImuInit ==
    /\ imu_queue = <<>>
    /\ last_imu_data = ZeroReading
    /\ wpc = "read"
    /\ wdata = ZeroReading
    /\ produced = 0
    /\ discarded = {}
    /\ gpc = "idle"
    /\ ret = ZeroReading
    /\ slotAtCall = <<>>
    /\ prevRet = ZeroReading

ImuIdle ==
    /\ imu_queue = <<>> /\ last_imu_data = ZeroReading /\ wpc = "off"
    /\ wdata = ZeroReading /\ produced = 0 /\ discarded = {}
    /\ gpc = "off" /\ ret = ZeroReading /\ slotAtCall = <<>>
    /\ prevRet = ZeroReading

consumerVars == <<last_imu_data, gpc, ret, slotAtCall, prevRet>>

\* imu_worker: self.imu.heading delivered a sample; data is built
WorkerRead ==
    /\ wpc = "read"
    /\ produced < MaxReadings
    /\ produced' = produced + 1
    /\ wdata' = produced + 1
    /\ wpc' = "check_full"
    /\ UNCHANGED <<imu_queue, discarded, consumerVars>>
    /\ UNCHANGED notImu

\* imu_worker: self.imu.heading raised; the except branch prints and the
\* iteration goes to its sleep
WorkerReadError ==
    /\ wpc = "read"
    /\ wpc' = "sleep"
    /\ UNCHANGED <<imu_queue, wdata, produced, discarded, consumerVars>>
    /\ UNCHANGED notImu

\* imu_worker: if self.imu_queue.full():
WorkerCheckFull ==
    /\ wpc = "check_full"
    /\ wpc' = IF QueueFull(imu_queue) THEN "get" ELSE "put"
    /\ UNCHANGED <<imu_queue, wdata, produced, discarded, consumerVars>>
    /\ UNCHANGED notImu

\* imu_worker: self.imu_queue.get()  (blocking)
WorkerGet ==
    /\ wpc = "get"
    /\ QueueGetReady(imu_queue, TRUE)
    /\ discarded' = discarded \cup {Head(imu_queue)}
    /\ imu_queue' = Tail(imu_queue)
    /\ wpc' = "put"
    /\ UNCHANGED <<wdata, produced, consumerVars>>
    /\ UNCHANGED notImu

\* imu_worker: self.imu_queue.put(data)  (blocking)
WorkerPut ==
    /\ wpc = "put"
    /\ QueuePutReady(imu_queue)
    /\ imu_queue' = Append(imu_queue, wdata)
    /\ wpc' = "sleep"
    /\ UNCHANGED <<wdata, produced, discarded, consumerVars>>
    /\ UNCHANGED notImu

\* imu_worker: time.sleep(...) ends, next iteration
WorkerSleep ==
    /\ wpc = "sleep"
    /\ wpc' = "read"
    /\ UNCHANGED <<imu_queue, wdata, produced, discarded, consumerVars>>
    /\ UNCHANGED notImu

\* a caller enters get_data
GetDataCall ==
    /\ gpc = "idle"
    /\ gpc' = "call"
    /\ UNCHANGED <<imu_queue, last_imu_data, ret, slotAtCall, prevRet,
                   wpc, wdata, produced, discarded>>
    /\ UNCHANGED notImu

\* get_data: self.last_imu_data = self.imu_queue.get(False); except: pass
GetDataGet ==
    /\ gpc = "call"
    /\ QueueGetReady(imu_queue, get_data_block)
    /\ slotAtCall' = imu_queue
    /\ prevRet' = ret
    /\ IF imu_queue # <<>>
          THEN /\ last_imu_data' = Head(imu_queue)
               /\ imu_queue' = Tail(imu_queue)
          ELSE UNCHANGED <<last_imu_data, imu_queue>>
    /\ gpc' = "return"
    /\ UNCHANGED <<ret, wpc, wdata, produced, discarded>>
    /\ UNCHANGED notImu

\* get_data: return self.last_imu_data
GetDataReturn ==
    /\ gpc = "return"
    /\ ret' = last_imu_data
    /\ gpc' = "idle"
    /\ UNCHANGED <<imu_queue, last_imu_data, slotAtCall, prevRet,
                   wpc, wdata, produced, discarded>>
    /\ UNCHANGED notImu

----------------------------------------------------------------------------
\* Joint table and bus

\* joints in the insertion order of the joint table (hwi.joints)
Joints == 1 .. NJoints
JointSeq == [i \in 1 .. NJoints |-> i]
\* sorted(self.joints.keys()): the table of the model lists its names in
\* reverse alphabetical order, so sorting reverses the insertion order
SortedJointSeq == [i \in 1 .. NJoints |-> NJoints + 1 - i]

\* result of one bus transaction as the caller sees it: the SDK call
\* returns with COMM_SUCCESS, returns with another comm_result, or raises
Outcomes == {"ok", "commfail", "raise"}

\* raw count a servo reports when it answers
PresentCount(j) == 100 * j + 5
\* position value ReadPos hands back: the servo's count on success, the
\* SDK's zero data word when the transaction failed without raising
ReadPosValue(j, o) == IF o = "ok" THEN Rat(PresentCount(j), 1) ELSE Rat(0, 1)

\* joints_offsets of the duck configuration, on the angle grid
JointOffset(j) == Rat(j - 1, AngleDen)

RECURSIVE SeqWithout(_, _)
SeqWithout(seq, ignore) ==
    IF seq = <<>> THEN <<>>
    ELSE IF Head(seq) \in ignore THEN SeqWithout(Tail(seq), ignore)
    ELSE <<Head(seq)>> \o SeqWithout(Tail(seq), ignore)

SeqSet(seq) == { seq[i] : i \in 1 .. Len(seq) }

\* the failure value of get_present_positions (None)
GppNone == [ok |-> FALSE, joints |-> <<>>, vals |-> <<>>]

\* RT get_present_positions: sorted order, every joint read, 0.0 appended
\* when ReadPos raises, comm_result ignored
get_present_positions_RT(ignore, out) ==
    LET order == SeqWithout(SortedJointSeq, ignore)
    IN  [ok     |-> TRUE,
         joints |-> order,
         vals   |-> [i \in 1 .. Len(order) |->
                       IF out[order[i]] = "raise" THEN Rat(0, 1)
                       ELSE servo_pos_to_rad_RT(DefaultCountsPerPi,
                                                ReadPosValue(order[i], out[order[i]]))]]

\* round to the nearest integer, ties to the even one (numpy's rule)
RoundHalfEven(a) ==
    LET f  == a[1] \div a[2]
        r2 == 2 * (a[1] - f * a[2])
    IN  IF r2 < a[2] THEN f
        ELSE IF r2 > a[2] THEN f + 1
        ELSE IF f % 2 = 0 THEN f ELSE f + 1

\* steps of 0.001 rad in pi radians (pi taken as 3.142)
MilliRadPerPi == 3142

\* np.around(x, 3) on an angle in radians, the angle given in units of pi
np_around3(v) ==
    Rat(RoundHalfEven(Rat(v[1] * MilliRadPerPi, v[2])), MilliRadPerPi)

present_position_DF_AddsOffset(j, count) ==
    RatAdd(servo_pos_to_rad_DF(SERVO_POS_RANGE, count), JointOffset(j))
\* DF get_present_positions, one joint before the rounding:
\* servo_pos_to_rad(servo_pos) - joints_offsets[joint_name]
present_position_DF(j, count) ==
    RatSub(servo_pos_to_rad_DF(SERVO_POS_RANGE, count), JointOffset(j))

\* DF get_present_positions: insertion order, None at the first read that
\* raises or returns comm_result != COMM_SUCCESS; values are
\* servo_pos_to_rad(pos) - offset (np.around(., 3) applied to the list)
get_present_positions_DF(ignore, out) ==
    LET order == SeqWithout(JointSeq, ignore)
    IN  IF \E i \in 1 .. Len(order) : out[order[i]] # "ok"
        THEN GppNone
        ELSE [ok     |-> TRUE,
              joints |-> order,
              vals   |-> [i \in 1 .. Len(order) |->
                            np_around3(present_position_DF(order[i],
                                           ReadPosValue(order[i], "ok")))]]

get_present_positions(impl, ignore, out) ==
    IF impl = "RT" THEN get_present_positions_RT(ignore, out)
    ELSE get_present_positions_DF(ignore, out)

\* the joints whose servo receives a ReadPos during get_present_positions
GppReads(impl, ignore, out) ==
    LET order == SeqWithout(IF impl = "RT" THEN SortedJointSeq ELSE JointSeq, ignore)
    IN  IF impl = "RT" THEN SeqSet(order)
        ELSE { order[i] : i \in { n \in 1 .. Len(order) :
                                    \A m \in 1 .. (n - 1) : out[order[m]] = "ok" } }

----------------------------------------------------------------------------
\* WaveshareHWI: configuration and set_position_all

\* the duck_config attributes the RT constructor reads with getattr: the
\* protocol ("absent" when the attribute is missing), counts_per_pi (0
\* when missing) and joint_map (there or not).  DF reads none of them: it
\* has its own joint table and drives the ST family.
HwiConfigs(impl) ==
    IF impl = "RT"
    THEN [protocol : {"absent", "scscl", "sms_sts"},
          counts_per_pi : {0} \cup Profiles("RT"),
          has_joint_map : BOOLEAN]
    ELSE {[protocol |-> "sms_sts", counts_per_pi |-> 0, has_joint_map |-> TRUE]}

\* self.protocol = getattr(duck_config, "protocol", "scscl"); DF drives the
\* sms_sts handler only
HwiProtocol(impl, cfg) ==
    IF impl = "DF" THEN "sms_sts"
    ELSE IF cfg.protocol = "absent" THEN "scscl" ELSE cfg.protocol

\* what the serial port and the SDK can do to a constructor: openPort and
\* setBaudRate return True, return False or raise
PortResults == {"ok", "false", "raise"}

\* RT __init__: openPort() and setBaudRate() are called and their results
\* dropped; a missing packet-handler module raises after the port has been
\* opened.  The result is the object's fate and the state of the port.
hwi_construct_RT(open, baud, sdk) ==
    LET port == IF open = "ok" THEN "open" ELSE "failed"
    IN  IF open = "raise" THEN [status |-> "raised", port |-> "failed"]
        ELSE IF baud = "raise" THEN [status |-> "raised", port |-> port]
        ELSE IF ~sdk THEN [status |-> "raised", port |-> port]
        ELSE [status |-> "ready", port |-> port]

\* DF __init__: RuntimeError when the SDK is missing (before the port is
\* touched), when openPort() is false, when setBaudRate() is false
hwi_construct_DF(open, baud, sdk) ==
    IF ~sdk THEN [status |-> "raised", port |-> "none"]
    ELSE IF open # "ok" THEN [status |-> "raised", port |-> "failed"]
    ELSE IF baud # "ok" THEN [status |-> "raised", port |-> "open"]
    ELSE [status |-> "ready", port |-> "open"]

hwi_construct(impl, open, baud, sdk) ==
    IF impl = "RT" THEN hwi_construct_RT(open, baud, sdk)
    ELSE hwi_construct_DF(open, baud, sdk)

\* what a bus transaction can come to: nothing succeeds on a port that is
\* not open
BusOutcomes(port) == IF port = "open" THEN Outcomes ELSE Outcomes \ {"ok"}

\* self.counts_per_pi = getattr(duck_config, "counts_per_pi", 1024); DF has
\* SERVO_POS_RANGE
HwiCountsPerPi(impl, cfg) ==
    IF impl = "DF" THEN SERVO_POS_RANGE
    ELSE IF cfg.counts_per_pi = 0 THEN DefaultCountsPerPi ELSE cfg.counts_per_pi

\* defaults of speed and acc in set_position_all
DefaultSpeed == 500
DefaultAcc == 30

\* a joint name that is not in the joint table
UnknownJoint == NJoints + 1
\* angles a caller requests, as k of k*pi/AngleDen
SpaAngles == {0 - MaxAngleK, 0, (AngleDen \div 2) + 1}
\* joints_dict: entries <<name, k>> in insertion order, names distinct
Mappings ==
    { m \in UNION { [1 .. n -> (Joints \cup {UnknownJoint}) \X SpaAngles] :
                      n \in 0 .. MaxEntries } :
        \A a, b \in 1 .. Len(m) : a # b => m[a][1] # m[b][1] }

joints_get_KeyError(name) == IF name \in Joints THEN name ELSE 0 - 1
\* self.joints.get(name): the servo id, or None (0) for an unknown name;
\* the servo id of joint j of the model is j
joints_get(name) == IF name \in Joints THEN name ELSE 0

\* the goal write of one entry: WritePosEx(sid, pos, speed, acc) for the ST
\* family, WritePos(sid, pos, 0, speed) for the SC family
GoalWrite(protocol, sid, pos) ==
    IF protocol = "sms_sts"
    THEN [op |-> "WritePosEx", sid |-> sid, args |-> <<pos, DefaultSpeed, DefaultAcc>>]
    ELSE [op |-> "WritePos", sid |-> sid, args |-> <<pos, 0, DefaultSpeed>>]

\* the count set_position_all computes for joint `name` asked to go to
\* `theta`: RT converts the requested angle as it is; DF adds
\* joints_offsets[name] first and truncates the float with int()
GoalCount(impl, cpp, name, theta) ==
    IF impl = "RT" THEN PyInt(rad_to_servo_pos_RT(cpp, theta))
    ELSE PyInt(rad_to_servo_pos_DF(cpp, RatAdd(theta, JointOffset(name))))

\* set_position_all: the goal writes issued, in order, and whether the call
\* ended with an exception.  Unknown names are skipped.  RT lets an
\* exception of the write escape (the remaining entries are not written);
\* DF catches it.  Neither looks at the comm result.
RECURSIVE set_position_all(_, _, _, _, _)
set_position_all(impl, protocol, cpp, mapping, out) ==
    IF mapping = <<>> THEN [writes |-> <<>>, raised |-> FALSE]
    ELSE LET name == Head(mapping)[1]
             sid  == joints_get(name)
             w    == GoalWrite(protocol, sid,
                         GoalCount(impl, cpp, name, Rat(Head(mapping)[2], AngleDen)))
             rest == set_position_all(impl, protocol, cpp, Tail(mapping), out)
         IN  IF sid = 0 THEN rest
             ELSE IF sid < 0 THEN [writes |-> <<>>, raised |-> TRUE]
             ELSE IF impl = "RT" /\ out[name] = "raise"
                  THEN [writes |-> <<w>>, raised |-> TRUE]
             ELSE [writes |-> <<w>> \o rest.writes, raised |-> rest.raised]

----------------------------------------------------------------------------
\* WaveshareHWI: turn_on and turn_off

\* torque-enable register written by RT (write1ByteTxRx(sid, 24, .))
TORQUE_ENABLE_RT == 24
\* register written by DF turn_off (write1ByteTxRx(servo_id, 40, 0))
SMS_STS_TORQUE_ENABLE == 40

TqNone == [torque |-> <<>>, goals |-> <<>>, raised |-> FALSE]

\* the write1ByteTxRx calls of a loop over the joint table, each inside
\* try/except: a write that raises is passed over and the loop goes on
TorqueWrites(reg, val, out) ==
    [i \in 1 .. NJoints |->
        [sid |-> JointSeq[i], reg |-> reg, val |-> val, outcome |-> out[JointSeq[i]]]]

\* self.init_pos handed to set_position_all by DF turn_on, with the home
\* angles put at 0 on the grid
InitPosMapping == [i \in 1 .. NJoints |-> <<JointSeq[i], 0>>]

\* RT turn_on: torque-enable write (value 1) to every joint.  DF turn_on:
\* set_kps (stores the gains), set_position_all(init_pos), set_kps; no
\* torque register is written.
turn_on(impl, out) ==
    IF impl = "RT"
    THEN [torque |-> TorqueWrites(TORQUE_ENABLE_RT, 1, out), goals |-> <<>>,
          raised |-> FALSE]
    ELSE LET r == set_position_all("DF", "sms_sts", SERVO_POS_RANGE, InitPosMapping, out)
         IN  [torque |-> <<>>, goals |-> r.writes, raised |-> r.raised]

\* turn_off: torque register := 0 for every joint, exceptions passed over
turn_off(impl, out) ==
    [torque |-> TorqueWrites(IF impl = "RT" THEN TORQUE_ENABLE_RT
                             ELSE SMS_STS_TORQUE_ENABLE, 0, out),
     goals |-> <<>>, raised |-> FALSE]

----------------------------------------------------------------------------
\* WaveshareHWI API harness

AllOk == [j \in Joints |-> "ok"]
SpaNone == [writes |-> <<>>, raised |-> FALSE]

HwiInit ==
    /\ hpc = "new"
    /\ hwi_port = "none" /\ hwi_closeCalls = 0 /\ hwi_closePorts = 0
    /\ hwi_tq = TqNone
    /\ hwi_impl \in Impls
    /\ hwi_cfg \in HwiConfigs(hwi_impl)
    /\ hwi_ignore = {}
    /\ hwi_outcome = AllOk
    /\ hwi_result = GppNone
    /\ hwi_mapping = <<>>
    /\ hwi_spa = SpaNone

HwiIdle ==
    /\ hpc = "off" /\ hwi_impl = "RT"
    /\ hwi_cfg = [protocol |-> "absent", counts_per_pi |-> 0,
                  has_joint_map |-> TRUE]
    /\ hwi_port = "none" /\ hwi_closeCalls = 0 /\ hwi_closePorts = 0
    /\ hwi_tq = TqNone
    /\ hwi_ignore = {} /\ hwi_outcome = AllOk /\ hwi_result = GppNone
    /\ hwi_mapping = <<>> /\ hwi_spa = SpaNone

\* WaveshareHWI(duck_config, port): the constructor returns the object or
\* raises
Construct ==
    /\ hpc = "new"
    /\ \E open \in PortResults, baud \in PortResults, sdk \in BOOLEAN :
          LET r == hwi_construct(hwi_impl, open, baud, sdk)
          IN  /\ hpc' = IF r.status = "ready" THEN "ready" ELSE "init_failed"
              /\ hwi_port' = r.port
    /\ UNCHANGED <<hwi_impl, hwi_cfg, hwi_ignore, hwi_outcome, hwi_result,
                   hwi_mapping, hwi_spa, hwi_closeCalls, hwi_closePorts, hwi_tq>>
    /\ UNCHANGED notHwi

\* the API is exercised on an interface that has a joint table and has not
\* been closed
Callable == hpc = "ready" /\ hwi_cfg.has_joint_map /\ hwi_closeCalls = 0

\* a caller invokes get_present_positions(ignore) while the bus answers
\* each ReadPos as `out` says
CallGetPresentPositions ==
    /\ Callable
    /\ \E ignore \in SUBSET Joints, out \in [Joints -> BusOutcomes(hwi_port)] :
          /\ hwi_ignore' = ignore
          /\ hwi_outcome' = out
          /\ hwi_result' = get_present_positions(hwi_impl, ignore, out)
    /\ hpc' = "gpp_returned"
    /\ UNCHANGED <<hwi_impl, hwi_cfg, hwi_mapping, hwi_spa, hwi_port,
                   hwi_closeCalls, hwi_closePorts, hwi_tq>>
    /\ UNCHANGED notHwi

\* a caller invokes set_position_all(mapping) while the bus answers the
\* write to each joint of the mapping as `out` says
CallSetPositionAll ==
    /\ Callable
    /\ \E m \in Mappings, out \in [Joints -> BusOutcomes(hwi_port)] :
          /\ \A j \in Joints :
                (\A i \in 1 .. Len(m) : m[i][1] # j) =>
                    out[j] = (IF hwi_port = "open" THEN "ok" ELSE "commfail")
          /\ hwi_mapping' = m
          /\ hwi_outcome' = out
          /\ hwi_spa' = set_position_all(hwi_impl, HwiProtocol(hwi_impl, hwi_cfg),
                                         HwiCountsPerPi(hwi_impl, hwi_cfg), m, out)
    /\ hpc' = "spa_returned"
    /\ UNCHANGED <<hwi_impl, hwi_cfg, hwi_ignore, hwi_result, hwi_port,
                   hwi_closeCalls, hwi_closePorts, hwi_tq>>
    /\ UNCHANGED notHwi

\* a caller invokes turn_on() while the bus answers the write to each
\* joint as `out` says
CallTurnOn ==
    /\ Callable
    /\ \E out \in [Joints -> BusOutcomes(hwi_port)] :
          /\ hwi_outcome' = out
          /\ hwi_tq' = turn_on(hwi_impl, out)
    /\ hpc' = "ton_returned"
    /\ UNCHANGED <<hwi_impl, hwi_cfg, hwi_ignore, hwi_result, hwi_mapping, hwi_spa,
                   hwi_port, hwi_closeCalls, hwi_closePorts>>
    /\ UNCHANGED notHwi

\* a caller invokes turn_off()
CallTurnOff ==
    /\ Callable
    /\ \E out \in [Joints -> BusOutcomes(hwi_port)] :
          /\ hwi_outcome' = out
          /\ hwi_tq' = turn_off(hwi_impl, out)
    /\ hpc' = "toff_returned"
    /\ UNCHANGED <<hwi_impl, hwi_cfg, hwi_ignore, hwi_result, hwi_mapping, hwi_spa,
                   hwi_port, hwi_closeCalls, hwi_closePorts>>
    /\ UNCHANGED notHwi

\* the caller is done with the call
HwiReturn ==
    /\ hpc \in {"gpp_returned", "spa_returned", "ton_returned", "toff_returned"}
    /\ hwi_tq' = TqNone
    /\ hpc' = "ready"
    /\ hwi_ignore' = {} /\ hwi_outcome' = AllOk /\ hwi_result' = GppNone
    /\ hwi_mapping' = <<>> /\ hwi_spa' = SpaNone
    /\ UNCHANGED <<hwi_impl, hwi_cfg, hwi_port, hwi_closeCalls, hwi_closePorts>>
    /\ UNCHANGED notHwi

\* whether close() invokes the port's closePort(): RT calls it inside
\* try/except on every call; DF calls it whenever self.port_handler is
\* set, and nothing ever unsets it
close_invokes_closePort(impl, calls) == TRUE

\* hwi.close()
Close ==
    /\ hpc = "ready"
    /\ hwi_closeCalls < MaxCloses
    /\ hwi_closeCalls' = hwi_closeCalls + 1
    /\ IF close_invokes_closePort(hwi_impl, hwi_closeCalls)
       THEN /\ hwi_closePorts' = hwi_closePorts + 1
            /\ hwi_port' = IF hwi_port = "open" THEN "closed" ELSE hwi_port
       ELSE UNCHANGED <<hwi_closePorts, hwi_port>>
    /\ UNCHANGED <<hpc, hwi_impl, hwi_cfg, hwi_ignore, hwi_outcome, hwi_result,
                   hwi_mapping, hwi_spa, hwi_tq>>
    /\ UNCHANGED notHwi

----------------------------------------------------------------------------
\* Calibration phase 1 (calibrate_waveshare.py): center every discovered
\* servo, read it back, save the record

\* center = 512
CalCenter == 512

\* the ids the scan visits (range(1, 51) in the scripts), cut down to the
\* servo ids of the joint table
ScanIds == Joints
\* counts a centered servo can report
ObservedCounts(sid) == {CalCenter, CalCenter + 10 * sid}

NoFile == [exists |-> FALSE, data |-> <<>>]

RECURSIVE AscendingSeq(_)
\* the members of a set of ids in ascending order
AscendingSeq(S) ==
    IF S = {} THEN <<>>
    ELSE LET m == CHOOSE x \in S : \A y \in S : x <= y
         IN  <<m>> \o AscendingSeq(S \ {m})

Rec1Init ==
    /\ cpc = "start"
    /\ cal_found = <<>>
    /\ cal_i = 1
    /\ cal_results = <<>>
    /\ cal_log = <<>>
    /\ cal_file = NoFile

\* The operator runs one script at a time: phase 1 starts while no merge
\* is running, a merge starts before phase 1 or after it has ended.
\* scan loop: ReadPos(sid) for every id; an id is found when the call
\* returns with res == 0, exceptions are swallowed
CalScan ==
    /\ cpc = "start"
    /\ mpc = "idle"
    /\ \E out \in [ScanIds -> Outcomes] :
          cal_found' = AscendingSeq({ sid \in ScanIds : out[sid] = "ok" })
    /\ cpc' = "recording"
    /\ UNCHANGED <<cal_i, cal_results, cal_log, cal_file>>
    /\ UNCHANGED mergeVars
    /\ UNCHANGED notCal

\* one iteration of `for sid in found`: WritePos(sid, center, 0, 500); an
\* exception skips the id.  Then sleep, ReadPos(sid); an exception skips the
\* id, otherwise results[sid] = pos whatever the comm result was.
CalRecord ==
    /\ cpc = "recording"
    /\ cal_i <= Len(cal_found)
    /\ LET sid == cal_found[cal_i]
       IN  \E w \in Outcomes :
              \/ /\ w = "raise"
                 /\ cal_log' = (sid :> [w |-> w, r |-> "none"]) @@ cal_log
                 /\ UNCHANGED cal_results
              \/ /\ w # "raise"
                 /\ \E r \in Outcomes, pos \in ObservedCounts(sid) :
                       /\ cal_log' = (sid :> [w |-> w, r |-> r]) @@ cal_log
                       /\ cal_results' =
                            IF r = "raise" THEN cal_results
                            ELSE (sid :> (IF r = "ok" THEN pos ELSE 0)) @@ cal_results
    /\ cal_i' = cal_i + 1
    /\ UNCHANGED <<cpc, cal_found, cal_file>>
    /\ UNCHANGED mergeVars
    /\ UNCHANGED notCal

\* json.dump(results) into waveshare_calibration.json
CalSave ==
    /\ cpc = "recording"
    /\ cal_i > Len(cal_found)
    /\ cal_file' = [exists |-> TRUE, data |-> cal_results]
    /\ cpc' = "saved"
    /\ UNCHANGED <<cal_found, cal_i, cal_results, cal_log>>
    /\ UNCHANGED mergeVars
    /\ UNCHANGED notCal

\* port.closePort() and the end of main(): the script's variables are gone,
\* the file stays
CalClose ==
    /\ cpc = "saved"
    /\ cpc' = "exited"
    /\ cal_found' = <<>> /\ cal_i' = 1 /\ cal_results' = <<>> /\ cal_log' = <<>>
    /\ UNCHANGED cal_file
    /\ UNCHANGED mergeVars
    /\ UNCHANGED notCal

----------------------------------------------------------------------------
\* Calibration phase 2 (compute_init_pos.py): merge the record into
\* duck_config.json

\* default of cfg.get("counts_per_pi", 1024)
MergeDefaultCountsPerPi == 1024

\* an init_pos entry that is not there
AbsentVal == <<0, 0>>

\* duck_config.json as the merge sees it: counts_per_pi (0 when the key is
\* missing), whether the init_pos key is there, init_pos per joint
\* (AbsentVal when the joint has no entry) and the joints_offset table the
\* DF interface reads.  joint_map sends joint j to servo id j.
ConfigContents ==
    { [counts_per_pi |-> c, has_init_pos |-> h,
       init_pos |-> [j \in Joints |-> IF j \in P THEN Rat(j, AngleDen) ELSE AbsentVal],
       joints_offset |-> [j \in Joints |-> JointOffset(j)]] :
        c \in {0} \cup Profiles("RT"),
        h \in BOOLEAN,
        P \in {{}, Joints, Joints \ {1}} }

NoConfig ==
    [counts_per_pi |-> 0, has_init_pos |-> FALSE,
     init_pos |-> [j \in Joints |-> AbsentVal],
     joints_offset |-> [j \in Joints |-> JointOffset(j)]]

MergeInit ==
    /\ \/ cfg_file = [exists |-> FALSE, content |-> NoConfig]
       \/ /\ cfg_file \in [exists : {TRUE}, content : ConfigContents]
          /\ (~cfg_file.content.has_init_pos) =>
                 cfg_file.content.init_pos = NoConfig.init_pos
    /\ bak_file = [exists |-> FALSE, content |-> NoConfig]
    /\ mpc = "idle"
    /\ m_step = 1
    /\ m_before = NoConfig
    /\ m_data = <<>>
    /\ m_exit = "none"
    /\ merges = 0
    /\ cfg_hist = <<>>

merged_init_pos_Accumulate(old, cpp, c) ==
    IF old = AbsentVal THEN Rat(2 * (c - (cpp \div 2)), cpp)
    ELSE RatAdd(old, Rat(2 * (c - (cpp \div 2)), cpp))
\* center = counts_per_pi // 2; rad = (c - center) * pi / (counts_per_pi / 2);
\* init_pos[joint] = float(rad), in units of pi
merged_init_pos(old, cpp, c) == Rat(2 * (c - (cpp \div 2)), cpp)

\* the configuration main() writes: init_pos of every joint of joint_map
\* whose servo id is a key of the record is replaced, cfg["init_pos"] is
\* set, everything else is as loaded
merge(cfg, data) ==
    LET cpp == IF cfg.counts_per_pi = 0 THEN MergeDefaultCountsPerPi
               ELSE cfg.counts_per_pi
    IN  [cfg EXCEPT !.has_init_pos = TRUE,
                    !.init_pos = [j \in Joints |->
                        IF j \in DOMAIN data
                        THEN merged_init_pos(cfg.init_pos[j], cpp, data[j])
                        ELSE cfg.init_pos[j]]]

MergePlan_WriteFirst == <<"write", "backup">>
\* what main() does to the files after loading, in order: shutil.copy to
\* duck_config.json.bak, then open(DUCK_CONFIG, "w") and json.dump
MergePlan == <<"backup", "write">>

\* main() up to the loads: return when duck_config.json or the calibration
\* file is missing, else load both
MergeStart ==
    /\ mpc = "idle"
    /\ cpc \in {"start", "exited"}
    /\ merges < MaxMerges
    /\ merges' = merges + 1
    /\ m_step' = 1
    /\ IF ~cfg_file.exists
       THEN /\ m_exit' = "no_config"
            /\ UNCHANGED <<mpc, m_before, m_data>>
       ELSE IF ~cal_file.exists
       THEN /\ m_exit' = "no_calibration"
            /\ UNCHANGED <<mpc, m_before, m_data>>
       ELSE /\ m_exit' = "none"
            /\ mpc' = "running"
            /\ m_before' = cfg_file.content
            /\ m_data' = cal_file.data
    /\ UNCHANGED <<cfg_file, bak_file, cfg_hist>>
    /\ UNCHANGED rec1Vars
    /\ UNCHANGED notCal

\* the step of the plan is done: on to the next, or main() returns
MergeAdvance ==
    /\ m_step' = m_step + 1
    /\ IF m_step = Len(MergePlan)
       THEN mpc' = "idle" /\ m_exit' = "merged"
       ELSE UNCHANGED <<mpc, m_exit>>

\* the exception of a file operation ends main()
MergeFail(why) ==
    /\ mpc' = "idle"
    /\ m_exit' = why
    /\ UNCHANGED m_step

\* shutil.copy(DUCK_CONFIG, DUCK_CONFIG.with_suffix(".json.bak"))
MergeBackup ==
    /\ mpc = "running"
    /\ MergePlan[m_step] = "backup"
    /\ \/ /\ bak_file' = [exists |-> TRUE, content |-> cfg_file.content]
          /\ MergeAdvance
       \/ /\ MergeFail("backup_failed")
          /\ UNCHANGED bak_file
    /\ UNCHANGED <<cfg_file, m_before, m_data, merges, cfg_hist>>
    /\ UNCHANGED rec1Vars
    /\ UNCHANGED notCal

\* the update loop, cfg["init_pos"] = init_pos, and the json.dump into
\* duck_config.json
MergeWrite ==
    /\ mpc = "running"
    /\ MergePlan[m_step] = "write"
    /\ \/ /\ cfg_file' = [exists |-> TRUE, content |-> merge(m_before, m_data)]
          /\ cfg_hist' = Append(cfg_hist, merge(m_before, m_data))
          /\ MergeAdvance
       \/ /\ MergeFail("write_failed")
          /\ UNCHANGED <<cfg_file, cfg_hist>>
    /\ UNCHANGED <<bak_file, m_before, m_data, merges>>
    /\ UNCHANGED rec1Vars
    /\ UNCHANGED notCal

CalInit == Rec1Init /\ MergeInit

CalIdle ==
    /\ cpc = "off" /\ cal_found = <<>> /\ cal_i = 1 /\ cal_results = <<>>
    /\ cal_log = <<>> /\ cal_file = NoFile
    /\ cfg_file = [exists |-> FALSE, content |-> NoConfig]
    /\ bak_file = [exists |-> FALSE, content |-> NoConfig]
    /\ mpc = "off" /\ m_step = 1 /\ m_before = NoConfig /\ m_data = <<>>
    /\ m_exit = "none" /\ merges = 0 /\ cfg_hist = <<>>

----------------------------------------------------------------------------
\* Diagnostic run (check_motors.py)

\* the hardware interfaces main() can select
Kinds == {"RT", "DF", "RP"}

\* attributes check_motors.py probes with hasattr
Attrs_RT == {"joints", "packet", "port", "turn_on", "turn_off", "set_kps",
             "get_present_positions", "rad_to_servo_pos", "servo_pos_to_rad"}
Attrs_DF == {"joints", "packet_handler", "port_handler", "turn_on", "turn_off",
             "set_kps", "get_present_positions", "rad_to_servo_pos",
             "servo_pos_to_rad"}
\* rustypot-style interface: the shape check_motors.py uses through hwi.io
Attrs_RP == {"joints", "io"}

HasAttr(k, a) ==
    a \in (IF k = "RT" THEN Attrs_RT ELSE IF k = "DF" THEN Attrs_DF ELSE Attrs_RP)

\* outcomes of a bus call as check_motors.py can observe them: the
\* rustypot io calls either return or raise
OutcomesOf(k) == IF k = "RP" THEN {"ok", "raise"} ELSE Outcomes

\* 'hwi' in globals() in the KeyboardInterrupt handler: main() binds hwi as
\* a local name and the module never assigns a global of that name
hwi_in_globals == FALSE

ZeroCount == [j \in Joints |-> 0]
NoIntr == [at |-> "none", handle |-> "none", sweep |-> ZeroCount]

Terminal == {"connect_failed", "aborted", "completed", "interrupted"}

DiagInit ==
    /\ pc = "connect"
    /\ kind \in Kinds
    /\ idx = 1
    /\ unresponsive = {}
    /\ responsive = {}
    /\ readFailed = {}
    /\ torqueOff = ZeroCount
    /\ torqueOffSkipped = {}
    /\ txAfterUnresp = {}
    /\ moveLog = [j \in Joints |-> "untested"]
    /\ phaseAtShutdown = "none"
    /\ intr = NoIntr
    /\ gateAnswer = "none"
    /\ moveSteps = <<>>

DiagIdle ==
    /\ pc = "off" /\ kind = "RT" /\ idx = 1 /\ unresponsive = {}
    /\ responsive = {} /\ readFailed = {} /\ torqueOff = ZeroCount
    /\ torqueOffSkipped = {} /\ txAfterUnresp = {}
    /\ moveLog = [j \in Joints |-> "untested"]
    /\ phaseAtShutdown = "none" /\ intr = NoIntr
    /\ gateAnswer = "none" /\ moveSteps = <<>>

\* end of one iteration of a for-loop over hwi.joints.items()
Advance(nextPhase) ==
    IF idx < NJoints THEN idx' = idx + 1 /\ pc' = pc
    ELSE idx' = 1 /\ pc' = nextPhase

\* exit status of the process for each of them: main() returns after the
\* connection error, after the abort path and at the end of the run, and
\* the KeyboardInterrupt handler falls off the end of the module; no path
\* calls sys.exit or lets an exception escape
ExitStatus(p) ==
    CASE p = "connect_failed" -> 0
      [] p = "aborted"        -> 0
      [] p = "completed"      -> 0
      [] p = "interrupted"    -> 0

\* main: the hardware interface is constructed, or the constructor raises
\* and main() returns
Connect ==
    /\ pc = "connect"
    /\ \E ok \in BOOLEAN :
          pc' = IF ok THEN "torque_enable" ELSE "connect_failed"
    /\ UNCHANGED <<kind, idx, unresponsive, responsive, readFailed, torqueOff,
                   torqueOffSkipped, txAfterUnresp, moveLog, phaseAtShutdown, intr>>
    /\ UNCHANGED <<gateAnswer, moveSteps>>
    /\ UNCHANGED notDiag

\* main: turn_on() / io.enable_torque per joint, every exception swallowed
TorqueEnable ==
    /\ pc = "torque_enable"
    /\ pc' = "low_torque"
    /\ idx' = 1
    /\ UNCHANGED <<kind, unresponsive, responsive, readFailed, torqueOff,
                   torqueOffSkipped, txAfterUnresp, moveLog, phaseAtShutdown, intr>>
    /\ UNCHANGED <<gateAnswer, moveSteps>>
    /\ UNCHANGED notDiag

\* main: per-motor low torque; set_kps of WaveshareHWI only stores the
\* list, io.set_kps is a bus call that may raise
LowTorque ==
    /\ pc = "low_torque"
    /\ \E o \in {"ok", "raise"} :
          unresponsive' =
             IF HasAttr(kind, "set_kps") THEN unresponsive
             ELSE IF HasAttr(kind, "io") /\ o = "raise"
                  THEN unresponsive \cup {idx}
                  ELSE unresponsive
    /\ Advance("check")
    /\ UNCHANGED <<kind, responsive, readFailed, torqueOff, torqueOffSkipped,
                   txAfterUnresp, moveLog, phaseAtShutdown, intr>>
    /\ UNCHANGED <<gateAnswer, moveSteps>>
    /\ UNCHANGED notDiag

\* pos_val of the responsiveness check of joint j: o is the outcome of the
\* direct read (packet.ReadPos / io.read_present_position), out the bus
\* outcomes during get_present_positions()
CheckPosVal(k, j, o, out) ==
    IF HasAttr(k, "packet")
    THEN IF o # "raise"
         THEN [none |-> FALSE, val |-> ReadPosValue(j, o)]
         ELSE [none |-> FALSE, val |-> get_present_positions_RT({}, out).vals[j]]
    ELSE IF HasAttr(k, "get_present_positions")
    THEN LET r == get_present_positions_DF({}, out)
         IN  IF r.ok THEN [none |-> FALSE, val |-> r.vals[j]]
             ELSE [none |-> TRUE, val |-> NoRat]
    ELSE IF HasAttr(k, "io") /\ o = "ok"
    THEN [none |-> FALSE, val |-> ReadPosValue(j, o)]
    ELSE [none |-> TRUE, val |-> NoRat]

\* servos that receive a read during the responsiveness check of joint j
CheckReads(k, j, o, out) ==
    IF HasAttr(k, "packet")
    THEN {j} \cup (IF o = "raise" THEN GppReads("RT", {}, out) ELSE {})
    ELSE IF HasAttr(k, "get_present_positions")
    THEN GppReads("DF", {}, out)
    ELSE {j}

\* every read of joint j's own servo during its check failed
OwnReadFailed(k, j, o, out) ==
    IF HasAttr(k, "packet")
    THEN o # "ok" /\ (o = "raise" => out[j] # "ok")
    ELSE IF HasAttr(k, "get_present_positions")
    THEN j \in GppReads("DF", {}, out) /\ out[j] # "ok"
    ELSE o # "ok"

\* main: responsiveness check of one joint
Check ==
    /\ pc = "check"
    /\ IF idx \in unresponsive
       THEN /\ UNCHANGED <<unresponsive, responsive, readFailed, txAfterUnresp>>
            /\ Advance(IF unresponsive # {} THEN "gate" ELSE "begin_move")
       ELSE \E o \in OutcomesOf(kind), out \in [Joints -> Outcomes] :
               LET pv == CheckPosVal(kind, idx, o, out)
                   un == IF pv.none THEN unresponsive \cup {idx} ELSE unresponsive
               IN  /\ unresponsive' = un
                   /\ responsive' = IF pv.none THEN responsive
                                    ELSE responsive \cup {idx}
                   /\ readFailed' = IF OwnReadFailed(kind, idx, o, out)
                                    THEN readFailed \cup {idx} ELSE readFailed
                   /\ txAfterUnresp' = txAfterUnresp \cup
                                       (CheckReads(kind, idx, o, out) \cap unresponsive)
                   /\ Advance(IF un # {} THEN "gate" ELSE "begin_move")
    /\ UNCHANGED <<kind, torqueOff, torqueOffSkipped, moveLog, phaseAtShutdown, intr>>
    /\ UNCHANGED <<gateAnswer, moveSteps>>
    /\ UNCHANGED notDiag


\* torque-disable writes one call of WaveshareHWI.turn_off() issues: one
\* write1ByteTxRx per joint of the table, exceptions swallowed
turn_off_writes == [j \in Joints |-> 1]

AddCounts(a, b) == [j \in Joints |-> a[j] + b[j]]
OneAt(j0) == [j \in Joints |-> IF j = j0 THEN 1 ELSE 0]

\* what the operator can type at a prompt
Answers == {"y", "Y", "n", "", "yes"}
\* str.lower() on those answers
Lower(a) == IF a = "Y" THEN "y" ELSE a

GateAborts_OnlyN(answer) == Lower(answer) = "n"
\* continue_anyway = input(...).lower(); if continue_anyway != 'y': abort
GateAborts(answer) == Lower(answer) # "y"

\* main: operator gate after the responsiveness check
Gate ==
    /\ pc = "gate"
    /\ \E answer \in Answers :
          /\ gateAnswer' = answer
          /\ pc' = IF GateAborts(answer) THEN "abort" ELSE "begin_move"
    /\ idx' = 1
    /\ UNCHANGED <<kind, unresponsive, responsive, readFailed, torqueOff,
                   torqueOffSkipped, txAfterUnresp, moveLog, phaseAtShutdown, intr>>
    /\ UNCHANGED moveSteps
    /\ UNCHANGED notDiag

\* main: abort path, one iteration of the loop over hwi.joints.items()
Abort ==
    /\ pc = "abort"
    /\ IF idx \in unresponsive
       THEN UNCHANGED <<torqueOff, txAfterUnresp>>
       ELSE IF HasAttr(kind, "turn_off")
            THEN /\ torqueOff' = AddCounts(torqueOff, turn_off_writes)
                 /\ txAfterUnresp' = txAfterUnresp \cup unresponsive
            ELSE /\ torqueOff' = AddCounts(torqueOff, OneAt(idx))
                 /\ UNCHANGED txAfterUnresp
    /\ Advance("aborted")
    /\ UNCHANGED <<kind, unresponsive, responsive, readFailed, torqueOffSkipped,
                   moveLog, phaseAtShutdown, intr>>
    /\ UNCHANGED <<gateAnswer, moveSteps>>
    /\ UNCHANGED notDiag

\* main: input("Press Enter to begin the movement test...")
BeginMove ==
    /\ pc = "begin_move"
    /\ pc' = "movement"
    /\ idx' = 1
    /\ UNCHANGED <<kind, unresponsive, responsive, readFailed, torqueOff,
                   torqueOffSkipped, txAfterUnresp, moveLog, phaseAtShutdown, intr>>
    /\ UNCHANGED <<gateAnswer, moveSteps>>
    /\ UNCHANGED notDiag

\* how the movement test of one joint ends: r1 the first read, w1 the
\* displacement write, r2 the read-back, w2 the return write, out the bus
\* outcomes during get_present_positions()
MoveResult(k, r1, w1, r2, w2, out) ==
    IF HasAttr(k, "packet")
    THEN IF r1 = "raise" THEN "read_failed"
         ELSE IF w1 = "raise" THEN "disp_failed"
         ELSE IF r2 = "raise" THEN "readback_failed"
         ELSE IF w2 = "raise" THEN "return_failed"
         ELSE "completed"
    ELSE IF HasAttr(k, "get_present_positions")
    THEN IF ~get_present_positions_DF({}, out).ok THEN "read_failed"
         ELSE "no_command_method"
    ELSE IF HasAttr(k, "io")
    THEN IF r1 = "raise" THEN "read_failed"
         ELSE IF w1 = "raise" THEN "disp_failed"
         ELSE IF r2 = "raise" THEN "readback_failed"
         ELSE IF w2 = "raise" THEN "return_failed"
         ELSE "completed"
    ELSE "read_failed"

\* the movement test reads through get_present_positions() when the
\* interface has no packet attribute but has that method
UsesGpp(k) == ~HasAttr(k, "packet") /\ HasAttr(k, "get_present_positions")

\* servos that receive a bus transaction during the movement test of j
MoveTouches(k, j, out) ==
    IF UsesGpp(k) THEN GppReads("DF", {}, out) ELSE {j}

\* delta = 0.1 rad, in units of pi (0.1 / pi = 0.0318..., here 7/220)
DeltaPerPi == Rat(7, 220)

\* the position a rustypot-style read reports for joint j, in units of pi
PresentAngle(j) == Rat(j, AngleDen)

\* counts c of the default resolution for which the double expression
\* (rad / pi) * (cpp / 2) + center, evaluated on the double
\* rad = (c - center) * pi / (cpp / 2), falls just below c
FloatShortfall == {10, 21, 30, 41, 52, 63, 74, 85, 94, 96, 105, 116, 127,
                   138, 149, 158, 169, 180}

\* rad_to_servo_pos of RT applied to the double servo_pos_to_rad(count):
\* int() truncates, so a value just below the integer c gives c - 1
rad_to_servo_pos_RT_fl(cpp, count) ==
    LET exact == rad_to_servo_pos_RT(cpp, servo_pos_to_rad_RT(cpp, count))
    IN  IF cpp = DefaultCountsPerPi /\ count[2] = 1 /\ count[1] \in FloatShortfall
        THEN Rat(clamp(exact[1] - 1, 0, cpp - 1), 1)
        ELSE exact

MoveStep(op, val, raised) == [op |-> op, val |-> val, raised |-> raised]
MoveSleep == MoveStep("sleep", NoRat, FALSE)

\* the bus calls and sleeps of the movement test of joint j, in order, up
\* to the first call that raises: r1 the first read, w1 the displacement
\* write, r2 the read-back, w2 the return write
MoveTrace(k, j, r1, w1, r2, w2, out) ==
    LET packet == HasAttr(k, "packet")
        rd     == IF packet THEN "ReadPos" ELSE "read_present_position"
        wr     == IF packet THEN "WritePos" ELSE "write_goal_position"
        cur    == IF packet THEN ReadPosValue(j, r1) ELSE PresentAngle(j)
        curRad == servo_pos_to_rad_RT(DefaultCountsPerPi, cur)
        target == IF packet
                  THEN rad_to_servo_pos_RT(DefaultCountsPerPi, RatAdd(curRad, DeltaPerPi))
                  ELSE RatAdd(cur, DeltaPerPi)
        orig   == IF packet
                  THEN rad_to_servo_pos_RT_fl(DefaultCountsPerPi, cur)
                  ELSE cur
        new    == IF packet THEN ReadPosValue(j, r2) ELSE PresentAngle(j)
        t1     == <<MoveStep(rd, cur, r1 = "raise")>>
        t2     == t1 \o <<MoveStep(wr, target, w1 = "raise")>>
        t3     == t2 \o <<MoveSleep, MoveStep(rd, new, r2 = "raise")>>
        t4     == t3 \o <<MoveStep(wr, orig, w2 = "raise")>>
    IN  IF UsesGpp(k)
        THEN <<MoveStep("get_present_positions", NoRat,
                        ~get_present_positions_DF({}, out).ok)>>
        ELSE IF r1 = "raise" THEN <<MoveStep(rd, NoRat, TRUE)>>
        ELSE IF w1 = "raise" THEN t2
        ELSE IF r2 = "raise" THEN t2 \o <<MoveSleep, MoveStep(rd, NoRat, TRUE)>>
        ELSE IF w2 = "raise" THEN t4
        ELSE t4 \o <<MoveSleep>>

MoveFailures == {"read_failed", "no_command_method", "disp_failed",
                 "readback_failed", "return_failed"}

NextAfterTest_Propagates(i, result) ==
    IF result \in MoveFailures THEN [pc |-> "crashed", idx |-> 1]
    ELSE IF i < NJoints THEN [pc |-> "movement", idx |-> i + 1]
    ELSE [pc |-> "torque_disable", idx |-> 1]
\* where main() goes after the test of joint i: the except clause is
\* inside the for loop, so whatever the result the loop goes on to the
\* next joint, and to "Turning off motors" after the last one
NextAfterTest(i, result) ==
    IF i < NJoints THEN [pc |-> "movement", idx |-> i + 1]
    ELSE [pc |-> "torque_disable", idx |-> 1]

\* the movement test of joint idx ran with this result and this trace
Tested(result, trace) ==
    LET n == NextAfterTest(idx, result)
    IN  /\ moveLog' = [moveLog EXCEPT ![idx] = result]
        /\ moveSteps' = trace
        /\ pc' = n.pc
        /\ idx' = n.idx
        /\ phaseAtShutdown' = IF n.pc = "torque_disable" THEN "finished"
                              ELSE phaseAtShutdown

\* main: movement test, one iteration of the loop over hwi.joints.items()
Move ==
    /\ pc = "movement"
    /\ IF idx \in unresponsive
       THEN /\ Advance("torque_disable")
            /\ phaseAtShutdown' = IF idx < NJoints THEN phaseAtShutdown ELSE "finished"
            /\ UNCHANGED <<moveLog, txAfterUnresp, moveSteps>>
       ELSE \E test_this_motor \in {"", "n", "q"} :
               IF test_this_motor = "q"
               THEN /\ pc' = "torque_disable"
                    /\ idx' = 1
                    /\ phaseAtShutdown' = "quit"
                    /\ UNCHANGED <<moveLog, txAfterUnresp, moveSteps>>
               ELSE IF test_this_motor = "n"
               THEN /\ Advance("torque_disable")
                    /\ phaseAtShutdown' = IF idx < NJoints THEN phaseAtShutdown
                                          ELSE "finished"
                    /\ moveLog' = [moveLog EXCEPT ![idx] = "skipped"]
                    /\ UNCHANGED <<txAfterUnresp, moveSteps>>
               ELSE IF UsesGpp(kind)
               THEN \E out \in [Joints -> Outcomes] :
                       /\ Tested(MoveResult(kind, "ok", "ok", "ok", "ok", out),
                                 MoveTrace(kind, idx, "ok", "ok", "ok", "ok", out))
                       /\ txAfterUnresp' = txAfterUnresp \cup
                             (MoveTouches(kind, idx, out) \cap unresponsive)
               ELSE \E r1 \in OutcomesOf(kind), w1 \in OutcomesOf(kind),
                       r2 \in OutcomesOf(kind), w2 \in OutcomesOf(kind) :
                       /\ Tested(MoveResult(kind, r1, w1, r2, w2, AllOk),
                                 MoveTrace(kind, idx, r1, w1, r2, w2, AllOk))
                       /\ txAfterUnresp' = txAfterUnresp \cup
                             (MoveTouches(kind, idx, AllOk) \cap unresponsive)
    /\ UNCHANGED <<kind, unresponsive, responsive, readFailed, torqueOff,
                   torqueOffSkipped, intr>>
    /\ UNCHANGED gateAnswer
    /\ UNCHANGED notDiag

\* main: "Turning off motors one by one": hwi.io.disable_torque([joint_id])
\* inside try; an interface without io raises AttributeError, which the
\* except branch prints
TorqueDisable ==
    /\ pc = "torque_disable"
    /\ IF idx \in unresponsive
       THEN UNCHANGED <<torqueOff, torqueOffSkipped>>
       ELSE IF HasAttr(kind, "io")
            THEN /\ torqueOff' = AddCounts(torqueOff, OneAt(idx))
                 /\ UNCHANGED torqueOffSkipped
            ELSE /\ torqueOffSkipped' = torqueOffSkipped \cup {idx}
                 /\ UNCHANGED torqueOff
    /\ Advance("completed")
    /\ UNCHANGED <<kind, unresponsive, responsive, readFailed, txAfterUnresp,
                   moveLog, phaseAtShutdown, intr>>
    /\ UNCHANGED <<gateAnswer, moveSteps>>
    /\ UNCHANGED notDiag

\* results of constructing a second hardware interface on the port that
\* main()'s interface still holds open: the port opens, openPort returns
\* False, or the constructor raises
OpenOutcomes == {"opened", "returned_false", "raised"}

\* the handle the KeyboardInterrupt handler sweeps with
SweepHandle(k, open) ==
    IF hwi_in_globals THEN "main"
    ELSE IF open = "opened" THEN "fallback"
    ELSE IF open = "returned_false" /\ k = "RT" THEN "fallback_dead"
    ELSE "none"

\* torque-disable writes that reach the bus during the handler's loop over
\* hw.joints.items(): turn_off() once per joint of the table, or
\* io.disable_torque([joint_id])
SweepWrites(k, handle) ==
    IF handle \in {"main", "fallback"}
    THEN IF HasAttr(k, "turn_off")
         THEN [j \in Joints |-> NJoints]
         ELSE [j \in Joints |-> 1]
    ELSE ZeroCount

\* __main__: KeyboardInterrupt raised out of main(), handler runs
Interrupt ==
    /\ pc \notin Terminal
    /\ \E open \in OpenOutcomes :
          LET h == SweepHandle(kind, open)
          IN  intr' = [at |-> pc, handle |-> h, sweep |-> SweepWrites(kind, h)]
    /\ pc' = "interrupted"
    /\ UNCHANGED <<kind, idx, unresponsive, responsive, readFailed, torqueOff,
                   torqueOffSkipped, txAfterUnresp, moveLog, phaseAtShutdown>>
    /\ UNCHANGED <<gateAnswer, moveSteps>>
    /\ UNCHANGED notDiag

----------------------------------------------------------------------------
\* test_waveshare_setup.py: test_single_movement and main's summary

\* the two copies of the test suite: "STS" is
\* STServo_Python/stservo-env/sms_sts/test_waveshare_setup.py, "DFT" is
\* duck_files/test_waveshare_setup.py
Suites == {"STS", "DFT"}

\* tolerance = 20  (counts)
Tolerance == 20
\* for attempt in range(6)
ReadRetries == 6
\* requested positions, and where the servo stands after the move relative
\* to the requested position
TsmPositions == {512, 1024}
TsmErrors == {0 - (Tolerance + 1), 0 - Tolerance, 0, Tolerance, Tolerance + 1}

\* normalize_position: scs_tohost(raw_pos, 15), bit 15 is the sign
normalize_position(raw) == IF raw >= 32768 THEN 32768 - raw ELSE raw

\* ReadPos attempts of the read-back: the STS suite retries, the DFT suite
\* reads once
ReadAttempts(suite) == IF suite = "STS" THEN ReadRetries ELSE 1

ReadRetryContinues_OneMore(suite, attempts, o) ==
    o # "ok" /\ attempts < ReadAttempts(suite) + 1
\* the retry loop goes on after an attempt: not after a COMM_SUCCESS
\* (break), not after the last attempt of the range
ReadRetryContinues(suite, attempts, o) ==
    o # "ok" /\ attempts < ReadAttempts(suite)

\* abs(pos - position) <= tolerance
WithinTolerance(pos, position) ==
    pos - position <= Tolerance /\ position - pos <= Tolerance

TsmNoSummary == [passed |-> 0, failed |-> 0, skipped |-> 0, exit |-> 0]

TsmInit ==
    /\ tpc = "start"
    /\ t_suite \in Suites
    /\ t_position \in TsmPositions
    /\ t_servo \in { p + e : p \in TsmPositions, e \in TsmErrors }
    /\ t_attempts = 0
    /\ t_fallbacks = 0
    /\ t_pos = 0
    /\ t_comm = "COMM_RX_TIMEOUT"
    /\ t_via = "none"
    /\ t_ret = "pending"
    /\ t_summary = TsmNoSummary

TsmIdle ==
    /\ tpc = "off" /\ t_suite = "STS" /\ t_position = 0 /\ t_servo = 0
    /\ t_attempts = 0 /\ t_fallbacks = 0 /\ t_pos = 0
    /\ t_comm = "COMM_RX_TIMEOUT" /\ t_via = "none" /\ t_ret = "pending"
    /\ t_summary = TsmNoSummary

\* the function returns value v
TsmReturn(v) == tpc' = "returned" /\ t_ret' = v

\* test_single_movement: the servo is looked up in detected_servos (the
\* STS suite runs the discovery when it is missing)
TsmLookup ==
    /\ tpc = "start"
    /\ \E detected \in BOOLEAN :
          IF detected THEN tpc' = "command" /\ UNCHANGED t_ret
          ELSE TsmReturn("False")
    /\ UNCHANGED <<t_suite, t_position, t_servo, t_attempts, t_fallbacks,
                   t_pos, t_comm, t_via, t_summary>>
    /\ UNCHANGED notTsm

\* test_single_movement: the goal write.  A write that raises goes to the
\* outer except; the STS suite also returns False on a write result other
\* than COMM_SUCCESS, the DFT suite does not look at the result
TsmCommand ==
    /\ tpc = "command"
    /\ \E w \in Outcomes :
          IF w = "raise" \/ (w = "commfail" /\ t_suite = "STS")
          THEN TsmReturn("False")
          ELSE tpc' = "wait" /\ UNCHANGED t_ret
    /\ UNCHANGED <<t_suite, t_position, t_servo, t_attempts, t_fallbacks,
                   t_pos, t_comm, t_via, t_summary>>
    /\ UNCHANGED notTsm

\* test_single_movement: the wait for the move: the ReadMoving poll of the
\* STS suite ends on moving == 0 or when max_wait (at most 8 s) has
\* elapsed, the DFT suite sleeps for `duration`
TsmWait ==
    /\ tpc = "wait"
    /\ tpc' = "readback"
    /\ UNCHANGED <<t_suite, t_position, t_servo, t_attempts, t_fallbacks,
                   t_pos, t_comm, t_via, t_ret, t_summary>>
    /\ UNCHANGED notTsm

\* test_single_movement: one ReadPos of the read-back.  In the DFT suite
\* the read is not inside an inner try: an exception ends the function
TsmReadAttempt ==
    /\ tpc = "readback"
    /\ \E o \in Outcomes :
          /\ t_attempts' = t_attempts + 1
          /\ t_comm' = IF o = "ok" THEN "COMM_SUCCESS"
                       ELSE IF o = "commfail" THEN "COMM_TX_FAIL"
                       ELSE "COMM_RX_TIMEOUT"
          /\ t_pos' = IF o = "ok" THEN t_servo
                      ELSE IF o = "commfail" THEN 0 ELSE t_pos
          /\ t_via' = IF o = "ok" THEN "ReadPos" ELSE t_via
          /\ IF o = "raise" /\ t_suite = "DFT"
             THEN TsmReturn("False")
             ELSE /\ tpc' = IF ReadRetryContinues(t_suite, t_attempts + 1, o)
                            THEN "readback" ELSE "judge"
                  /\ UNCHANGED t_ret
    /\ UNCHANGED <<t_suite, t_position, t_servo, t_fallbacks, t_summary>>
    /\ UNCHANGED notTsm

\* test_single_movement: if comm_result == COMM_SUCCESS: the verdict by
\* tolerance; else the ReadPosSpeed fallback (STS) or return False (DFT)
TsmJudge ==
    /\ tpc = "judge"
    /\ IF t_comm = "COMM_SUCCESS"
       THEN LET pos == IF t_suite = "STS" THEN normalize_position(t_pos) ELSE t_pos
            IN  /\ t_pos' = pos
                /\ TsmReturn(IF WithinTolerance(pos, t_position)
                             THEN "True" ELSE "False")
       ELSE IF t_suite = "STS"
       THEN tpc' = "fallback" /\ UNCHANGED <<t_pos, t_ret>>
       ELSE TsmReturn("False") /\ UNCHANGED t_pos
    /\ UNCHANGED <<t_suite, t_position, t_servo, t_attempts, t_fallbacks,
                   t_comm, t_via, t_summary>>
    /\ UNCHANGED notTsm

FallbackVerdict_Judged(pos, position) ==
    IF WithinTolerance(pos, position) THEN "True" ELSE "False"
\* what the function returns after a successful ReadPosSpeed fallback: pos
\* and comm_result are assigned and the else branch ends; no statement
\* follows it inside the try, so the function falls off its end
FallbackVerdict(pos, position) == "None"

\* test_single_movement: the ReadPosSpeed fallback of the STS suite
TsmFallback ==
    /\ tpc = "fallback"
    /\ t_fallbacks' = t_fallbacks + 1
    /\ \E o \in Outcomes :
          IF o = "ok"
          THEN /\ t_pos' = normalize_position(t_servo)
               /\ t_comm' = "COMM_SUCCESS"
               /\ t_via' = "ReadPosSpeed"
               /\ TsmReturn(FallbackVerdict(normalize_position(t_servo), t_position))
          ELSE /\ TsmReturn("False")
               /\ UNCHANGED <<t_pos, t_comm, t_via>>
    /\ UNCHANGED <<t_suite, t_position, t_servo, t_attempts, t_summary>>
    /\ UNCHANGED notTsm

\* main: results["single"] = ...; the summary counts True as passed, False
\* as failed, None as skipped; sys.exit(1) if failed > 0
TsmSummary ==
    /\ tpc = "returned"
    /\ t_summary' = [passed  |-> IF t_ret = "True" THEN 1 ELSE 0,
                     failed  |-> IF t_ret = "False" THEN 1 ELSE 0,
                     skipped |-> IF t_ret = "None" THEN 1 ELSE 0,
                     exit    |-> IF t_ret = "False" THEN 1 ELSE 0]
    /\ tpc' = "done"
    /\ UNCHANGED <<t_suite, t_position, t_servo, t_attempts, t_fallbacks,
                   t_pos, t_comm, t_via, t_ret>>
    /\ UNCHANGED notTsm

----------------------------------------------------------------------------
\* Specifications

ConvNext == ApplyRadToServoPos \/ ApplyServoPosToRad
ImuNext  == \/ WorkerRead \/ WorkerReadError \/ WorkerCheckFull \/ WorkerGet
            \/ WorkerPut \/ WorkerSleep
            \/ GetDataCall \/ GetDataGet \/ GetDataReturn
CalNext  == \/ CalScan \/ CalRecord \/ CalSave \/ CalClose
            \/ MergeStart \/ MergeBackup \/ MergeWrite
HwiNext  == \/ Construct \/ CallGetPresentPositions \/ CallSetPositionAll
            \/ CallTurnOn \/ CallTurnOff \/ HwiReturn \/ Close
DiagNext == \/ Connect \/ TorqueEnable \/ LowTorque \/ Check \/ Gate \/ Abort
            \/ BeginMove \/ Move \/ TorqueDisable \/ Interrupt

\* unit conversion applied to every angle of the grid
InitConv == CvInit /\ ImuIdle /\ HwiIdle /\ CalIdle /\ DiagIdle /\ TsmIdle
SpecConv == InitConv /\ [][ConvNext]_vars

\* the IMU worker thread interleaved with get_data callers
InitImu  == CvIdle /\ ImuInit /\ HwiIdle /\ CalIdle /\ DiagIdle /\ TsmIdle
SpecImu  == InitImu /\ [][ImuNext]_vars

\* the same with the worker thread scheduled fairly: a step of the worker
\* that stays possible is eventually taken (the thread is never starved);
\* nothing is assumed about how often get_data is called
WorkerStep == \/ WorkerCheckFull \/ WorkerGet \/ WorkerPut \/ WorkerSleep
SpecImuLive == InitImu /\ [][ImuNext]_vars /\ WF_vars(WorkerStep)

\* calls of the WaveshareHWI API
InitHwi  == CvIdle /\ ImuIdle /\ HwiInit /\ CalIdle /\ DiagIdle /\ TsmIdle
SpecHwi  == InitHwi /\ [][HwiNext]_vars

\* the calibration pipeline alone
InitCal  == CvIdle /\ ImuIdle /\ HwiIdle /\ CalInit /\ DiagIdle /\ TsmIdle
SpecCal  == InitCal /\ [][CalNext]_vars

\* one run of test_single_movement followed by main's summary
TsmNext  == \/ TsmLookup \/ TsmCommand \/ TsmWait \/ TsmReadAttempt
            \/ TsmJudge \/ TsmFallback \/ TsmSummary
InitTsm  == CvIdle /\ ImuIdle /\ HwiIdle /\ CalIdle /\ DiagIdle /\ TsmInit
SpecTsm  == InitTsm /\ [][TsmNext]_vars
\* the same, with the script's single thread running on: a statement that
\* can execute does execute (every bus call returns or raises, the SDK
\* reads carry a timeout)
SpecTsmLive == InitTsm /\ [][TsmNext]_vars /\ WF_vars(TsmNext)

\* one diagnostic run of check_motors.py
Init == CvIdle /\ ImuIdle /\ HwiIdle /\ CalIdle /\ DiagInit /\ TsmIdle
Next == DiagNext
Spec == Init /\ [][Next]_vars

----------------------------------------------------------------------------
\* Properties of the diagnostic run

\* C1: on the operator-abort path (some joint unresponsive, answer other
\* than 'y' at the gate) a torque-disable is attempted exactly once for the
\* servo of each joint that is not unresponsive and never for the servo of
\* an unresponsive joint, before the run terminates.
C1_AbortDisablesHealthyOnce ==
    pc = "aborted" =>
        \A j \in Joints : torqueOff[j] = (IF j \in unresponsive THEN 0 ELSE 1)

\* C2: when the run reports completion after its shutdown phase, a
\* torque-disable write was issued to the servo of every joint that is not
\* marked unresponsive, whichever hardware interface was selected.
C2_ShutdownDisablesEveryHealthyJoint ==
    pc = "completed" => \A j \in Joints \ unresponsive : torqueOff[j] >= 1

\* C3: if KeyboardInterrupt arrives after main() opened the hardware
\* interface, then when the handler is done a torque-disable has been
\* attempted for every joint through a handle that reaches the bus.
C3_InterruptSweepsEveryJoint ==
    (pc = "interrupted" /\ intr.at # "connect") =>
        \A j \in Joints : intr.sweep[j] >= 1

\* C5: every joint whose position read failed in the responsiveness check
\* is in the unresponsive set and is not reported responsive, whichever
\* hardware interface was selected.
C5_FailedReadMarksUnresponsive ==
    \A j \in readFailed : j \in unresponsive /\ j \notin responsive

\* C6: once a joint is in the unresponsive set no later step of the run
\* issues a bus transaction to that joint's servo.
C6_NoBusTrafficToUnresponsive ==
    txAfterUnresp = {}

----------------------------------------------------------------------------
\* Properties of the WaveshareHWI API

\* C4: get_present_positions is all-or-nothing: if the read of at least one
\* non-excluded joint fails (raises or returns a non-success result) the
\* call returns the failure value, never a list.
C4_GetPresentPositionsAllOrNothing ==
    (hpc = "gpp_returned" /\ \E j \in Joints \ hwi_ignore : hwi_outcome[j] # "ok")
        => ~hwi_result.ok

----------------------------------------------------------------------------
\* Properties of the IMU reader

C8_GetDataNeverBlocks ==
    /\ gpc = "call" => ENABLED GetDataGet
    /\ gpc = "idle" => ret = (IF slotAtCall # <<>> THEN slotAtCall[1] ELSE prevRet)
    /\ produced = 0 => ret = ZeroReading

\* get_data found the slot empty and returned the reading of an earlier call
C8_Witness ==
    /\ gpc = "idle" /\ slotAtCall = <<>> /\ imu_queue = <<>>
    /\ prevRet # ZeroReading /\ ret = prevRet

----------------------------------------------------------------------------
\* Properties of the unit conversion

InSpan(k) == (0 - AngleDen) <= k /\ k <= AngleDen

\* C9: rad_to_servo_pos returns a count in [0, resolution-1] for every
\* angle, including angles far outside [-pi, pi].
C9_CountInRange ==
    cv_pc \in {"converted", "back"} =>
        /\ RatLE(Rat(0, 1), cv_pos)
        /\ RatLE(cv_pos, Rat(cv_cpp - 1, 1))

\* an angle beyond +pi was clamped to the top count, or one below -pi to 0
C9_Witness ==
    /\ cv_pc = "converted"
    /\ \/ cv_k > 2 * AngleDen /\ RatEq(cv_pos, Rat(cv_cpp - 1, 1))
       \/ cv_k < 0 - 2 * AngleDen /\ RatEq(cv_pos, Rat(0, 1)) /\ cv_impl = "RT"

\* C10: for both profiles and every angle theta of the grid within
\* [-pi, pi], servo_pos_to_rad(rad_to_servo_pos(theta)) differs from theta
\* by at most one count's worth of angle, pi / (resolution/2).
C10_RoundTripWithinOneCount ==
    (cv_pc = "back" /\ InSpan(cv_k)) =>
        RatLE(RatAbs(RatSub(cv_rad, Rat(cv_k, AngleDen))), OneCount(cv_cpp))

\* a round trip inside the span that did lose something to rounding
C10_Witness ==
    /\ cv_pc = "back" /\ InSpan(cv_k) /\ cv_k < AngleDen
    /\ ~RatEq(cv_rad, Rat(cv_k, AngleDen))

\* round-to-nearest of a rational (ties to even, as Python's round)
RoundNearest(a) ==
    LET f  == a[1] \div a[2]
        r2 == 2 * (a[1] - f * a[2])
    IN  IF r2 < a[2] THEN f
        ELSE IF r2 > a[2] THEN f + 1
        ELSE IF f % 2 = 0 THEN f ELSE f + 1

\* the count the stated formula gives:
\* clamp(round(rad/pi * resolution/2) + resolution/2, 0, resolution-1)
RoundedCount(cpp, theta) ==
    clamp(RoundNearest(Rat(theta[1] * cpp, 2 * theta[2])) + (cpp \div 2), 0, cpp - 1)

\* C11: the count rad_to_servo_pos produces (the integer that reaches the
\* servo) equals clamp(round(rad/pi * resolution/2) + resolution/2, 0,
\* resolution-1) with round-to-nearest.
C11_CountIsRoundToNearest ==
    cv_pc \in {"converted", "back"} =>
        PyInt(cv_pos) = RoundedCount(cv_cpp, Rat(cv_k, AngleDen))

\* C12: rad_to_servo_pos is monotonic non-decreasing: for the converted
\* angle a and every angle b of the grid with a <= b, count(a) <= count(b).
C12_Monotonic ==
    cv_pc \in {"converted", "back"} =>
        \A k2 \in cv_k .. MaxAngleK :
            RatLE(cv_pos, rad_to_servo_pos(cv_impl, cv_cpp, Rat(k2, AngleDen)))

\* an angle below -pi was converted, and a larger angle inside the span
\* gets a strictly larger count while one beyond +pi gets the top count
C12_Witness ==
    /\ cv_pc = "converted" /\ cv_k < 0 - AngleDen
    /\ ~RatLE(rad_to_servo_pos(cv_impl, cv_cpp, Rat(1, AngleDen)), cv_pos)
    /\ RatEq(rad_to_servo_pos(cv_impl, cv_cpp, Rat(MaxAngleK, AngleDen)),
             Rat(cv_cpp - 1, 1))

----------------------------------------------------------------------------
\* Properties of the WaveshareHWI configuration and set_position_all

\* resolution of the profile of a protocol: 1024 for SC, 2048 for ST
ProfileResolution(protocol) ==
    IF protocol = "scscl" THEN DefaultCountsPerPi ELSE SERVO_POS_RANGE

\* C13: for the protocol the configuration selects, the HWI converts with
\* that protocol's profile: 0 rad maps to the profile's center count (512
\* for SC, 1024 for ST) and the center count maps back to exactly 0 rad.
C13_ProtocolProfileCenter ==
    hpc = "ready" =>
        LET protocol == HwiProtocol(hwi_impl, hwi_cfg)
            cpp      == HwiCountsPerPi(hwi_impl, hwi_cfg)
            center   == ProfileResolution(protocol) \div 2
        IN  /\ PyInt(rad_to_servo_pos(hwi_impl, cpp, Rat(0, 1))) = center
            /\ RatEq(servo_pos_to_rad(hwi_impl, cpp, Rat(center, 1)), Rat(0, 1))

\* the mapping without its entries for unknown joint names
RECURSIVE KnownEntries(_)
KnownEntries(mapping) ==
    IF mapping = <<>> THEN <<>>
    ELSE IF Head(mapping)[1] \in Joints
         THEN <<Head(mapping)>> \o KnownEntries(Tail(mapping))
         ELSE KnownEntries(Tail(mapping))

\* C19: set_position_all with a mapping that names an unknown joint does
\* not raise on account of it, issues no write for it, and issues for the
\* known joints exactly the writes (and the outcome) it would have issued
\* had the unknown entry been absent.
C19_UnknownJointIsNoOp ==
    hpc = "spa_returned" =>
        /\ hwi_spa = set_position_all(hwi_impl, HwiProtocol(hwi_impl, hwi_cfg),
                                      HwiCountsPerPi(hwi_impl, hwi_cfg),
                                      KnownEntries(hwi_mapping), hwi_outcome)
        /\ \A i \in 1 .. Len(hwi_spa.writes) : hwi_spa.writes[i].sid \in Joints
        /\ (\A j \in Joints : hwi_outcome[j] # "raise") => ~hwi_spa.raised

\* a mapping with an unknown name ahead of a known one, whose write went out
C19_Witness ==
    /\ hpc = "spa_returned"
    /\ Len(hwi_mapping) >= 2
    /\ hwi_mapping[1][1] = UnknownJoint
    /\ Len(hwi_spa.writes) = Len(hwi_mapping) - 1
    /\ ~hwi_spa.raised

\* the angle the mapping requests for joint j
RequestedFor(mapping, j) ==
    LET i == CHOOSE n \in 1 .. Len(mapping) : mapping[n][1] = j
    IN  Rat(mapping[i][2], AngleDen)

\* C20: for every known joint of the mapping the goal count written is the
\* conversion of (requested angle + that joint's calibration offset), in
\* both implementations and for both protocols.
C20_GoalIncludesOffset ==
    hpc = "spa_returned" =>
        \A i \in 1 .. Len(hwi_spa.writes) :
            LET w == hwi_spa.writes[i]
            IN  w.args[1] =
                  PyInt(rad_to_servo_pos(hwi_impl, HwiCountsPerPi(hwi_impl, hwi_cfg),
                            RatAdd(RequestedFor(hwi_mapping, w.sid),
                                   JointOffset(w.sid))))

----------------------------------------------------------------------------
\* Properties of the calibration pipeline

\* a run of the merge has just written the configuration
MergeDone == mpc = "idle" /\ m_exit = "merged"

\* C14: the merge never changes the stored value of a joint whose servo id
\* is absent from the calibration record, and merging an empty record
\* leaves the persisted configuration unchanged (same keys, same values).
C14_AbsentJointsUntouched ==
    MergeDone =>
        /\ \A j \in Joints \ DOMAIN m_data :
              /\ cfg_file.content.init_pos[j] = m_before.init_pos[j]
              /\ cfg_file.content.joints_offset[j] = m_before.joints_offset[j]
        /\ (m_data = <<>>) => cfg_file.content = m_before

\* C15: the merge is idempotent: every run that merges the same record
\* writes the same configuration as the first one did.
C15_MergeIdempotent ==
    \A a, b \in 1 .. Len(cfg_hist) : cfg_hist[a] = cfg_hist[b]

\* the record was merged twice, and it holds an off-center count that
\* replaced a stored value
C15_Witness ==
    /\ MergeDone /\ Len(cfg_hist) = 2
    /\ \E j \in DOMAIN m_data :
          /\ m_data[j] > CalCenter
          /\ cfg_hist[2].init_pos[j] # Rat(j, AngleDen)
          /\ ~RatEq(cfg_hist[2].init_pos[j], Rat(0, 1))

\* C16: after the merge every joint whose servo id is in the record has
\* its calibration offset (the offset the interface adds when commanding)
\* equal to (observed count - center) * pi / (resolution / 2), and no
\* other per-joint field has been overwritten.
C16_MergeSetsCalibrationOffset ==
    MergeDone =>
        \A j \in Joints \cap DOMAIN m_data :
            LET cpp == IF m_before.counts_per_pi = 0 THEN MergeDefaultCountsPerPi
                       ELSE m_before.counts_per_pi
            IN  /\ RatEq(cfg_file.content.joints_offset[j],
                         Rat(2 * (m_data[j] - (cpp \div 2)), cpp))
                /\ cfg_file.content.init_pos[j] = m_before.init_pos[j]

\* C17: the merge never writes the configuration without a backup: when
\* the new configuration is written, the backup file exists and holds the
\* configuration as it was when this run of the merge loaded it.
C17_BackupBeforeWrite ==
    [][MergeWrite => (bak_file.exists /\ bak_file.content = m_before)]_vars

\* a merge that replaced a stored value, with the old one in the backup
C17_Witness ==
    /\ MergeDone
    /\ bak_file.exists /\ bak_file.content = m_before
    /\ \E j \in DOMAIN m_data :
          /\ m_before.init_pos[j] # AbsentVal
          /\ cfg_file.content.init_pos[j] # m_before.init_pos[j]

\* C18: in phase 1, an id whose center write or position read failed
\* (raised, or returned a non-success comm result) is absent from the saved
\* record, every other discovered id is still processed, and every entry
\* of the record comes from a successful read.
C18_RecordOnlySuccessfulReads ==
    cpc = "saved" =>
        /\ \A i \in 1 .. Len(cal_found) : cal_found[i] \in DOMAIN cal_log
        /\ \A sid \in DOMAIN cal_log :
              (cal_log[sid].w # "ok" \/ cal_log[sid].r # "ok") =>
                  sid \notin DOMAIN cal_file.data
        /\ \A sid \in DOMAIN cal_file.data : cal_log[sid].r = "ok"

----------------------------------------------------------------------------
\* Properties of the life cycle of a hardware-interface session

\* the constructor has returned an interface
Constructed == hpc \in {"ready", "gpp_returned", "spa_returned"}

\* C21: opening fails fast: if openPort or setBaudRate fails, construction
\* ends in an error; an interface is never returned over a port that did
\* not open.
C21_OpenFailsFast ==
    (Constructed /\ hwi_closeCalls = 0) => hwi_port = "open"

\* C22: a configuration without the protocol field or without joint_map
\* makes construction fail before any hardware access: the port is never
\* touched and no interface is returned.
C22_MissingFieldFailsFirst ==
    (hwi_cfg.protocol = "absent" \/ ~hwi_cfg.has_joint_map) =>
        (~Constructed /\ hwi_port = "none")

\* C23: close() releases the transport exactly once: over any sequence of
\* close() calls on one session the port's closePort is invoked one time.
C23_CloseReleasesOnce ==
    hwi_closeCalls >= 1 => hwi_closePorts = 1

\* C24: turn_on and turn_off are best-effort over all joints: whichever
\* torque writes fail, a torque write is attempted for every joint of the
\* table and the call returns without raising.
C24_TorqueBestEffort ==
    hpc \in {"ton_returned", "toff_returned"} =>
        /\ ~hwi_tq.raised
        /\ \A j \in Joints :
              \E i \in 1 .. Len(hwi_tq.torque) : hwi_tq.torque[i].sid = j

\* C25: a failure at any step of one joint's movement test ends only that
\* joint's test: the run is still in the loop at a later joint or past it,
\* a run that finished the loop offered the test for every joint that is
\* not unresponsive, and a completed run went through the torque-disable
\* loop for each of them.
C25_FailureEndsOnlyThatJoint ==
    /\ \A j \in Joints :
          moveLog[j] \in MoveFailures =>
             /\ pc \in {"movement", "torque_disable", "completed", "interrupted"}
             /\ (pc = "movement" => idx > j)
    /\ (pc \in {"torque_disable", "completed"} /\ phaseAtShutdown = "finished") =>
          \A j \in Joints \ unresponsive : moveLog[j] # "untested"
    /\ pc = "completed" =>
          \A j \in Joints \ unresponsive :
             torqueOff[j] >= 1 \/ j \in torqueOffSkipped

C25_Witness ==
    /\ pc = "completed"
    /\ moveLog[1] \in MoveFailures
    /\ moveLog[2] = "completed"

\* C26: with a non-empty unresponsive set no movement test starts unless
\* the operator answered 'y' (in either case) at the gate; any other
\* answer takes the abort path, which ends without a movement test.
C26_OperatorGate ==
    /\ ( /\ unresponsive # {}
         /\ \/ pc \in {"begin_move", "movement", "torque_disable", "completed"}
            \/ \E j \in Joints : moveLog[j] # "untested" )
       => Lower(gateAnswer) = "y"
    /\ (gateAnswer # "none" /\ Lower(gateAnswer) # "y") =>
          /\ pc \in {"abort", "aborted", "interrupted"}
          /\ \A j \in Joints : moveLog[j] = "untested"
          /\ moveSteps = <<>>

C26_Witness ==
    /\ pc = "completed"
    /\ unresponsive # {}
    /\ gateAnswer = "Y"
    /\ \E j \in Joints : moveLog[j] = "completed"

C26_WitnessAbort ==
    /\ pc = "aborted"
    /\ gateAnswer = "yes"

\* C29: a successful movement test runs, in order, read, command
\* current + 0.1, settle, read back, command back, settle; with raw count
\* reads the count of the return command equals the count read at the
\* start.
C29_ReturnsToStartCount ==
    (pc = "movement" /\ idx > 1 /\ moveLog[idx - 1] = "completed") =>
       /\ [i \in 1 .. Len(moveSteps) |-> moveSteps[i].op] \in
              { <<"ReadPos", "WritePos", "sleep", "ReadPos", "WritePos", "sleep">>,
                <<"read_present_position", "write_goal_position", "sleep",
                  "read_present_position", "write_goal_position", "sleep">> }
       /\ \A i \in 1 .. Len(moveSteps) : ~moveSteps[i].raised
       /\ RatEq(moveSteps[2].val, RatAdd(moveSteps[1].val,
                   IF moveSteps[1].op = "ReadPos" THEN Rat(16, 1) ELSE DeltaPerPi))
       /\ RatEq(moveSteps[5].val, moveSteps[1].val)

\* C27: the script exits with a non-zero status when the hardware
\* interface cannot be set up (port, baud rate, SDK, constructor), and with
\* status 0 only after a run that got past the setup.
C27_SetupFailureExitsNonZero ==
    pc \in Terminal =>
       /\ (pc = "connect_failed" => ExitStatus(pc) # 0)
       /\ (ExitStatus(pc) = 0 => pc # "connect_failed")

\* floor of the duration of an SC goal write, in ms (test_single_movement)
ScTimeFloor == 100

\* C28: every SC goal write carries a duration of at least the 100 ms
\* floor, never zero; every ST goal write carries the speed and the
\* acceleration.
C28_ScWritesCarryDuration ==
    hpc = "spa_returned" =>
        \A i \in 1 .. Len(hwi_spa.writes) :
            LET w == hwi_spa.writes[i]
            IN  /\ w.op = "WritePos" => w.args[2] >= ScTimeFloor
                /\ w.op = "WritePosEx" =>
                       (w.args[2] = DefaultSpeed /\ w.args[3] = DefaultAcc)

\* C30: the IMU worker never blocks forever: once a reading has been
\* built, the worker gets through its queue operations, the reading is
\* placed in the slot and the iteration reaches its sleep.
C30_WorkerNeverBlocksForever ==
    (wpc = "check_full") ~> (wpc = "sleep")

\* the steps of a movement-test trace that are goal commands
MoveWriteOps == {"WritePos", "write_goal_position"}

\* C31: whenever the displacement command of a joint's movement test has
\* been issued, a command back is issued to that servo before the run
\* moves on to the next joint or to the torque-disable loop, also when the
\* read-back after the displacement fails.
C31_DisplacementIsUndone ==
    ( /\ Len(moveSteps) >= 2
      /\ moveSteps[2].op \in MoveWriteOps
      /\ ~moveSteps[2].raised )
    => \E k \in 3 .. Len(moveSteps) : moveSteps[k].op \in MoveWriteOps

\* C32: the responsiveness check adds a joint to the unresponsive set
\* only if the read of that joint's own servo failed, for every hardware
\* interface the script can select.
C32_UnresponsiveOnlyByOwnRead ==
    [][Check => \A j \in unresponsive' \ unresponsive : j \in readFailed']_vars

\* one count of the ST profile, and half a step of the 3-decimal rounding,
\* as angles in units of pi
OneCount_DF == Rat(2, SERVO_POS_RANGE)
HalfMilliRad == Rat(1, 2 * MilliRadPerPi)

\* rad_to_servo_pos of DF does not clip theta + offset
NotClamped_DF(theta, j) ==
    LET x == RatAdd(theta, JointOffset(j))
    IN  /\ RatLE(Rat(0 - 1, 1), x)
        /\ RatLE(Rat(x[1] * SERVO_POS_RANGE + x[2] * SERVO_POS_RANGE, 2 * x[2]),
                 Rat(DF_CLIP_MAX, 1))

\* C35: in the ST hardware interface get_present_positions subtracts the
\* offset set_position_all adds: with the servo at the commanded count and
\* no clamping, the position read for a joint is the commanded angle to
\* within one count of angle, plus the 3-decimal rounding.
C35_ReadUndoesCommandOffset ==
    (hpc = "spa_returned" /\ hwi_impl = "DF") =>
        /\ \A i \in 1 .. Len(hwi_spa.writes) :
              LET w     == hwi_spa.writes[i]
                  theta == RequestedFor(hwi_mapping, w.sid)
                  u     == present_position_DF(w.sid, Rat(w.args[1], 1))
                  r     == np_around3(u)
              IN  NotClamped_DF(theta, w.sid) =>
                     /\ RatLE(RatAbs(RatSub(u, theta)), OneCount_DF)
                     /\ RatLE(RatAbs(RatSub(r, u)), HalfMilliRad)
        \* and for every angle of the grid, commanded to any joint
        /\ \A j \in Joints, k \in (0 - MaxAngleK) .. MaxAngleK :
              LET theta == Rat(k, AngleDen)
                  count == GoalCount("DF", SERVO_POS_RANGE, j, theta)
                  u     == present_position_DF(j, Rat(count, 1))
              IN  NotClamped_DF(theta, j) =>
                     /\ RatLE(RatAbs(RatSub(u, theta)), OneCount_DF)
                     /\ RatLE(RatAbs(RatSub(np_around3(u), u)), HalfMilliRad)

C35_Witness ==
    /\ hpc = "spa_returned" /\ hwi_impl = "DF"
    /\ \E i \in 1 .. Len(hwi_spa.writes) :
          LET w     == hwi_spa.writes[i]
              theta == RequestedFor(hwi_mapping, w.sid)
              u     == present_position_DF(w.sid, Rat(w.args[1], 1))
          IN  /\ NotClamped_DF(theta, w.sid)
              /\ JointOffset(w.sid)[1] # 0
              /\ ~RatEq(u, theta)
              /\ ~RatEq(np_around3(u), u)

\* C34: when construction of the hardware interface fails at any step
\* (port open, baud rate, packet handler of the protocol), no serial port
\* opened by the constructor is left open.
C34_FailedConstructLeavesNoOpenPort ==
    hpc = "init_failed" => hwi_port # "open"

\* C36: backups are non-destructive across runs: a later merge does not
\* overwrite the backup an earlier merge wrote, so the configuration as it
\* was before the first merge stays available in a backup file.
C36_BackupsKeptAcrossRuns ==
    [][(MergeBackup /\ bak_file.exists) => bak_file'.content = bak_file.content]_vars

\* the register the diagnostics read as torque enable
\* (diag_servo.py: pkt.read1ByteTxRx(sid, 40))
TORQUE_ENABLE_DIAG == 40

\* the values a torque call has stored in register reg of servo sid: those
\* of its writes to that register that succeeded
Stored(writes, sid, reg) ==
    { writes[i].val : i \in { n \in 1 .. Len(writes) :
                                /\ writes[n].sid = sid
                                /\ writes[n].reg = reg
                                /\ writes[n].outcome = "ok" } }

\* C38: torque writes and torque diagnostics address the same register:
\* after a turn_on whose writes all succeed, register 40 of every joint's
\* servo holds 1, after such a turn_off it holds 0, and every torque write
\* targets that address.
C38_TorqueRegisterAgrees ==
    ( /\ hpc \in {"ton_returned", "toff_returned"}
      /\ \A i \in 1 .. Len(hwi_tq.torque) : hwi_tq.torque[i].outcome = "ok" )
    => /\ \A i \in 1 .. Len(hwi_tq.torque) :
             hwi_tq.torque[i].reg = TORQUE_ENABLE_DIAG
       /\ \A j \in Joints :
             Stored(hwi_tq.torque, j, TORQUE_ENABLE_DIAG) =
                {IF hpc = "ton_returned" THEN 1 ELSE 0}

----------------------------------------------------------------------------
\* Properties of test_single_movement

\* C33: test_single_movement always ends with a verdict: True exactly when
\* a position read back after the move (ReadPos or the ReadPosSpeed
\* fallback) is within 20 counts of the requested position, False on every
\* other path, never a non-boolean; the summary counts no executed test as
\* skipped.
C33_AlwaysAVerdict ==
    tpc \in {"returned", "done"} =>
       /\ t_ret \in {"True", "False"}
       /\ t_ret = "True" <=>
             (t_comm = "COMM_SUCCESS" /\ WithinTolerance(t_pos, t_position))
       /\ tpc = "done" => t_summary.skipped = 0

\* the counters of the read-back phase of the STS suite
ReadBackBounded ==
    t_suite = "STS" =>
       /\ t_attempts <= ReadRetries
       /\ t_fallbacks <= 1
       /\ tpc = "readback" =>
             (t_attempts < ReadRetries /\ t_comm # "COMM_SUCCESS")
       /\ t_via = "ReadPos" => t_fallbacks = 0
       /\ (tpc = "fallback" \/ t_fallbacks = 1) =>
             (t_attempts = ReadRetries /\ t_via # "ReadPos")

\* C37: the read-back retry is bounded: at most 6 ReadPos attempts, none
\* after the first COMM_SUCCESS, and after 6 failed attempts one
\* ReadPosSpeed fallback; the read-back phase always ends, whether or not
\* the servo ever answers.
C37_ReadBackTerminates ==
    /\ []ReadBackBounded
    /\ (tpc = "readback") ~> (tpc = "done")

C37_Witness ==
    /\ tpc = "done"
    /\ t_suite = "STS"
    /\ t_attempts = ReadRetries
    /\ t_fallbacks = 1
    /\ t_ret = "False"

====
